---------------------------- MODULE Spec2Model ----------------------------
(***************************************************************************)
(* Minesweeper game engine of src/Kasianova-Kate/script.js: the board      *)
(* generator (createCell, countAdjacentMines, createBoard, createGame),    *)
(* the handlers (initGame, openCell, toggleFlag), their helpers            *)
(* (floodOpen, revealAllMines, checkWinCondition, startTimer, stopTimer)   *)
(* and the interval callback of the timer.                                 *)
(*                                                                         *)
(* JavaScript runs every handler to completion on one thread, so each      *)
(* handler is one action.  createBoard alone is also modelled loop         *)
(* iteration by loop iteration (GenSpec), because its while loop need not  *)
(* terminate.                                                              *)
(***************************************************************************)
EXTENDS Integers, Sequences, FiniteSets, TLC

VARIABLES
    game,                \* script.js:149  the global game object
    firstClickHappened,  \* script.js:150
    timerIntervalId,     \* script.js:151
    elapsedSeconds,      \* script.js:152
    minesCounter,        \* script.js:219  the number shown in #mines-counter
    last,                \* the handler that ran last and how it ended
    gen,                 \* the activation record of a running createGame/createBoard
    flood                \* the activation record of a running floodOpen

vars == <<game, firstClickHappened, timerIntervalId, elapsedSeconds, minesCounter,
          last, gen, flood>>

---------------------------------------------------------------------------
(* Bounds of the model *)

\* boards have at most this many cells (rows * cols)
MaxCells == 4
\* the interval callback is followed for this many seconds
MaxSeconds == 1
\* createBoard is called with at most this many mines more than cells
MaxExtraMines == 1

---------------------------------------------------------------------------
(* Values *)

\* script.js:149,151  null
Null == "null"

\* the value setInterval returns (script.js:181): a non-zero handle
IntervalHandle == "interval"

\* the board shapes rows x cols, rows >= 1 and cols >= 1
Shapes == {s \in (1..MaxCells) \X (1..MaxCells) : s[1] * s[2] <= MaxCells}

\* the coordinates of a rows x cols two-dimensional array
Cells(rows, cols) == (0..(rows - 1)) \X (0..(cols - 1))

\* script.js:24-26  the (dr, dc) pairs in the order the two loops visit them
Offsets ==
    << <<-1, -1>>, <<-1, 0>>, <<-1, 1>>,
       << 0, -1>>,            << 0, 1>>,
       << 1, -1>>, << 1, 0>>, << 1, 1>> >>

---------------------------------------------------------------------------
(* Board generator *)

\* script.js:6-12
createCell(hasMine) ==
    [hasMine |-> hasMine, neighborMines |-> 0, state |-> "closed"]

\* script.js:22-37, with only the four orthogonal neighbours
countAdjacentMinesOrthogonal(board, rows, cols, row, col) ==
    Cardinality({i \in 1..Len(Offsets) :
        LET nr == row + Offsets[i][1]
            nc == col + Offsets[i][2]
        IN  /\ Offsets[i][1] = 0 \/ Offsets[i][2] = 0
            /\ nr >= 0 /\ nr < rows /\ nc >= 0 /\ nc < cols
            /\ board[<<nr, nc>>].hasMine})

\* script.js:22-37  (rows = board.length, cols = board[0].length)
countAdjacentMines(board, rows, cols, row, col) ==
    Cardinality({i \in 1..Len(Offsets) :
        LET nr == row + Offsets[i][1]
            nc == col + Offsets[i][2]
        IN  /\ nr >= 0 /\ nr < rows /\ nc >= 0 /\ nc < cols
            /\ board[<<nr, nc>>].hasMine})

\* script.js:51-58  rows x cols fresh cells
emptyBoard(rows, cols) == [p \in Cells(rows, cols) |-> createCell(FALSE)]

\* script.js:71-78  the neighbour counts of the cells without a mine
countNeighbors(board, rows, cols) ==
    [p \in Cells(rows, cols) |->
        IF board[p].hasMine
        THEN board[p]
        ELSE [board[p] EXCEPT !.neighborMines =
                  countAdjacentMines(board, rows, cols, p[1], p[2])]]

\* script.js:62  the condition of the placement loop, off by one
placementPendingOffByOne(placedMines, minesCount) == placedMines < minesCount - 1

\* script.js:62  the condition of the placement loop
placementPending(placedMines, minesCount) == placedMines < minesCount

\* script.js:48-81, counting a draw that hits a mined cell as a placed mine
createBoardCountsCollisions(rows, cols, minesCount) ==
    {countNeighbors([p \in Cells(rows, cols) |-> createCell(p \in M)], rows, cols) :
        M \in {S \in SUBSET Cells(rows, cols) :
                  Cardinality(S) <= minesCount /\ (minesCount > 0 => S # {})}}

\* script.js:48-81  every board a terminating run of createBoard can return:
\* the loop at 62-69 ends with exactly minesCount distinct cells mined
createBoard(rows, cols, minesCount) ==
    {countNeighbors([p \in Cells(rows, cols) |-> createCell(p \in M)], rows, cols) :
        M \in {S \in SUBSET Cells(rows, cols) : Cardinality(S) = minesCount}}

\* script.js:92-100
createGame(rows, cols, mines, board) ==
    [rows |-> rows, cols |-> cols, mines |-> mines,
     status |-> "in-progress", board |-> board]

---------------------------------------------------------------------------
(* Timer *)

\* script.js:190-195, clearing the interval but keeping the handle
stopTimerKeepsHandle(id) == id

\* script.js:190-195
stopTimer(id) == IF id # Null THEN Null ELSE id

\* script.js:176-185  the handle and the counter after startTimer
startTimer(id) == [timerIntervalId |-> IntervalHandle, elapsedSeconds |-> 0]

---------------------------------------------------------------------------
(* Game engine: helpers on the game object *)

\* script.js:288-290
inBounds(g, r, c) == r >= 0 /\ r < g.rows /\ c >= 0 /\ c < g.cols

\* script.js:307-315  the neighbours floodOpen pushes, in push order
pushedNeighbors(g, board, cr, cc) ==
    LET nb(i) == <<cr + Offsets[i][1], cc + Offsets[i][2]>>
        ok(p) == /\ inBounds(g, p[1], p[2])
                 /\ board[p].state = "closed"
                 /\ ~board[p].hasMine
    IN  SelectSeq([i \in 1..Len(Offsets) |-> nb(i)], ok)

\* script.js:304, discarding mines only
floodDiscardsMinesOnly(cell) == cell.hasMine

\* script.js:304  if (cell.state !== 'closed' || cell.hasMine) continue;
floodDiscards(cell) == cell.state # "closed" \/ cell.hasMine

\* script.js:301-317, cascading from every opened cell (306 dropped)
floodLoopCascadesAlways(g, board, stack, opened) ==
    LET RECURSIVE loop(_, _, _)
        loop(b, st, op) ==
            IF st = <<>>
            THEN [board |-> b, opened |-> op]
            ELSE LET cur  == st[Len(st)]
                     rest == SubSeq(st, 1, Len(st) - 1)
                     b2   == [b EXCEPT ![cur].state = "open"]
                 IN  IF b[cur].state # "closed" \/ b[cur].hasMine
                     THEN loop(b, rest, op)
                     ELSE loop(b2, rest \o pushedNeighbors(g, b2, cur[1], cur[2]),
                               Append(op, cur))
    IN  loop(board, stack, opened)

RECURSIVE floodLoop(_, _, _, _)
\* script.js:301-317  the while loop: board, work-list and the cells it opened
floodLoop(g, board, stack, opened) ==
    IF stack = <<>>
    THEN [board |-> board, opened |-> opened]
    ELSE LET cur  == stack[Len(stack)]
             rest == SubSeq(stack, 1, Len(stack) - 1)
             cell == board[cur]
         IN  IF floodDiscards(cell)
             THEN floodLoop(g, board, rest, opened)
             ELSE LET b2 == [board EXCEPT ![cur].state = "open"]
                  IN  IF cell.neighborMines = 0
                      THEN floodLoop(g, b2,
                                     rest \o pushedNeighbors(g, b2, cur[1], cur[2]),
                                     Append(opened, cur))
                      ELSE floodLoop(g, b2, rest, Append(opened, cur))

\* script.js:299-318, cascading through the four orthogonal neighbours only
floodOpenOrthogonal(g, r, c) ==
    LET RECURSIVE loop(_, _, _)
        loop(board, stack, opened) ==
            IF stack = <<>>
            THEN [board |-> board, opened |-> opened]
            ELSE LET cur  == stack[Len(stack)]
                     rest == SubSeq(stack, 1, Len(stack) - 1)
                     cell == board[cur]
                     b2   == [board EXCEPT ![cur].state = "open"]
                     orth(p) == p[1] = cur[1] \/ p[2] = cur[2]
                 IN  IF cell.state # "closed" \/ cell.hasMine
                     THEN loop(board, rest, opened)
                     ELSE IF cell.neighborMines = 0
                          THEN loop(b2,
                                    rest \o SelectSeq(pushedNeighbors(g, b2, cur[1], cur[2]), orth),
                                    Append(opened, cur))
                          ELSE loop(b2, rest, Append(opened, cur))
    IN  loop(g.board, << <<r, c>> >>, <<>>)

\* script.js:299-318  the board after the call, and the cells set to 'open' in order
floodOpen(g, r, c) == floodLoop(g, g.board, << <<r, c>> >>, <<>>)

\* script.js:370-379, leaving flagged mines alone
revealAllMinesClosedOnly(g, board) ==
    [p \in Cells(g.rows, g.cols) |->
        IF board[p].hasMine /\ board[p].state = "closed"
        THEN [board[p] EXCEPT !.state = "open"]
        ELSE board[p]]

\* script.js:370-379
revealAllMines(g, board) ==
    [p \in Cells(g.rows, g.cols) |->
        IF board[p].hasMine THEN [board[p] EXCEPT !.state = "open"] ELSE board[p]]

\* script.js:385-398, counting only the closed safe cells
checkWinConditionIgnoringFlags(g, board) ==
    LET unopenedSafe == Cardinality({p \in Cells(g.rows, g.cols) :
                            ~board[p].hasMine /\ board[p].state = "closed"})
    IN  unopenedSafe = 0

\* script.js:385-398  TRUE when the function sets status to 'win' and stops the timer
checkWinCondition(g, board) ==
    LET unopenedSafe == Cardinality({p \in Cells(g.rows, g.cols) :
                            ~board[p].hasMine /\ board[p].state # "open"})
    IN  unopenedSafe = 0

\* script.js:327, without the guard
openCellIgnoresStatus(g) == FALSE

\* script.js:327  if (game.status !== 'in-progress') return;
openCellReturnsEarly(g) == g.status # "in-progress"

\* script.js:358, without the guard
toggleFlagIgnoresStatus(g) == FALSE

\* script.js:358  if (game.status !== 'in-progress') return;
toggleFlagReturnsEarly(g) == g.status # "in-progress"

\* script.js:334-337, forgetting game.status = 'lose'
openMineKeepsStatus(g, p) ==
    [g EXCEPT !.board = revealAllMines(g, [g.board EXCEPT ![p].state = "open"])]

\* script.js:334-337  the game after the mine branch of openCell
openMine(g, p) ==
    [g EXCEPT !.board  = revealAllMines(g, [g.board EXCEPT ![p].state = "open"]),
              !.status = "lose"]

\* script.js:342-347  the game after the safe branch of openCell
openSafe(g, p) ==
    LET b2 == IF g.board[p].neighborMines = 0
              THEN floodOpen(g, p[1], p[2]).board
              ELSE [g.board EXCEPT ![p].state = "open"]
    IN  [g EXCEPT !.board  = b2,
                  !.status = IF checkWinCondition(g, b2) THEN "win" ELSE g.status]

\* script.js:329, letting a flagged cell through
openCellSkipsOpenOnly(state) == state = "open"

\* script.js:329  if (cell.state !== 'closed') return;
openCellSkipsCell(state) == state # "closed"

\* script.js:360, without the guard
toggleFlagSkipsNothing(state) == FALSE

\* script.js:360  if (cell.state === 'open') return;
toggleFlagSkipsCell(state) == state = "open"

\* script.js:330, starting the timer on every successful open
startsTimerAlways(first) == TRUE

\* script.js:330  if (!firstClickHappened)
startsTimer(first) == ~first

\* script.js:203-209  for a game object (every caller passes one: 202 does not apply)
getFlagCount(g) ==
    Cardinality({p \in Cells(g.rows, g.cols) : g.board[p].state = "flagged"})

\* the larger of two integers (Math.max)
Max(a, b) == IF a >= b THEN a ELSE b

\* script.js:215-220, without the floor at 0
updateMinesCounterUnfloored(g) == g.mines - getFlagCount(g)

\* script.js:215-220  the number written to #mines-counter (as its decimal text)
updateMinesCounter(g) == Max(0, g.mines - getFlagCount(g))

\* script.js:361, never taking a flag off
flipFlagOneWay(state) == "flagged"

\* script.js:361  the flipped state of a cell that is not open
flipFlag(state) == IF state = "flagged" THEN "closed" ELSE "flagged"

\* the record of the handler that ran last: its name and where it left,
\* "status" (the return of line 327 or 358), "throw" (a TypeError at 328-329 or
\* 359-360), "state" (the return of line 329 or 360) or "end" (it ran through)
Ran(op, exit) == [op |-> op, exit |-> exit]

---------------------------------------------------------------------------
(* The handlers *)

\* no floodOpen call is being followed step by step
FloodIdle == [pc |-> "idle", seed |-> <<>>, stack |-> <<>>, board |-> <<>>, opened |-> <<>>]

\* no createGame call is being followed step by step
GenIdle ==
    [pc |-> "idle", rows |-> 0, cols |-> 0, minesCount |-> 0,
     board |-> <<>>, placedMines |-> 0, created |-> Null]

\* script.js:446-449  the state once DOMContentLoaded has run initGame on the
\* globals of lines 149-152.  initGame's literals 9, 10 and 15 (433-435) are
\* createGame's parameters; the model draws them from the bounded shapes.
Init ==
    /\ \E s \in Shapes : \E m \in 0..(s[1] * s[2]) :
         \E b \in createBoard(s[1], s[2], m) :
            game = createGame(s[1], s[2], m, b)
    /\ firstClickHappened = FALSE
    /\ timerIntervalId = Null
    /\ elapsedSeconds = 0
    /\ minesCounter = updateMinesCounter(game)
    /\ last = Ran("initGame", "end")
    /\ gen = GenIdle
    /\ flood = FloodIdle

\* script.js:432-443  rows, cols and mines are literals of the program: every
\* game of one run has the dimensions and the mine count of the first
initGame ==
    /\ \E b \in createBoard(game.rows, game.cols, game.mines) :
            game' = createGame(game.rows, game.cols, game.mines, b)
    /\ firstClickHappened' = FALSE
    /\ timerIntervalId' = stopTimer(timerIntervalId)
    /\ minesCounter' = updateMinesCounter(game')
    /\ last' = Ran("initGame", "end")
    /\ UNCHANGED <<elapsedSeconds, gen, flood>>

\* script.js:326-349
openCell(r, c) ==
    IF openCellReturnsEarly(game)
    THEN /\ last' = Ran("openCell", "status")
         /\ UNCHANGED <<game, firstClickHappened, timerIntervalId, elapsedSeconds,
                      minesCounter, gen, flood>>
    ELSE IF ~inBounds(game, r, c)
    THEN \* 328-329: game.board[r] or the cell is undefined, reading it throws
         /\ last' = Ran("openCell", "throw")
         /\ UNCHANGED <<game, firstClickHappened, timerIntervalId, elapsedSeconds,
                      minesCounter, gen, flood>>
    ELSE IF openCellSkipsCell(game.board[<<r, c>>].state)
    THEN /\ last' = Ran("openCell", "state")
         /\ UNCHANGED <<game, firstClickHappened, timerIntervalId, elapsedSeconds,
                      minesCounter, gen, flood>>
    ELSE LET timer == IF startsTimer(firstClickHappened)
                      THEN startTimer(timerIntervalId)
                      ELSE [timerIntervalId |-> timerIntervalId,
                            elapsedSeconds  |-> elapsedSeconds]
             g2    == IF game.board[<<r, c>>].hasMine
                      THEN openMine(game, <<r, c>>)
                      ELSE openSafe(game, <<r, c>>)
         IN  /\ firstClickHappened' = TRUE
             /\ game' = g2
             /\ elapsedSeconds' = timer.elapsedSeconds
             /\ timerIntervalId' =
                    IF game.board[<<r, c>>].hasMine \/ g2.status = "win"
                    THEN stopTimer(timer.timerIntervalId)
                    ELSE timer.timerIntervalId
             /\ last' = Ran("openCell", "end")
             /\ UNCHANGED <<minesCounter, gen, flood>>

\* script.js:357-364
toggleFlag(r, c) ==
    IF toggleFlagReturnsEarly(game)
    THEN /\ last' = Ran("toggleFlag", "status")
         /\ UNCHANGED <<game, firstClickHappened, timerIntervalId, elapsedSeconds,
                      minesCounter, gen, flood>>
    ELSE IF ~inBounds(game, r, c)
    THEN \* 359-360: game.board[r] or the cell is undefined, reading it throws
         /\ last' = Ran("toggleFlag", "throw")
         /\ UNCHANGED <<game, firstClickHappened, timerIntervalId, elapsedSeconds,
                      minesCounter, gen, flood>>
    ELSE IF toggleFlagSkipsCell(game.board[<<r, c>>].state)
    THEN /\ last' = Ran("toggleFlag", "state")
         /\ UNCHANGED <<game, firstClickHappened, timerIntervalId, elapsedSeconds,
                      minesCounter, gen, flood>>
    ELSE /\ game' = [game EXCEPT !.board[<<r, c>>].state = flipFlag(@)]
         /\ minesCounter' = updateMinesCounter(game')
         /\ last' = Ran("toggleFlag", "end")
         /\ UNCHANGED <<firstClickHappened, timerIntervalId, elapsedSeconds, gen, flood>>

\* script.js:181-184  the interval callback
timerTick ==
    /\ timerIntervalId # Null
    /\ elapsedSeconds < MaxSeconds
    /\ elapsedSeconds' = elapsedSeconds + 1
    /\ last' = Ran("timerTick", "end")
    /\ UNCHANGED <<game, firstClickHappened, timerIntervalId, minesCounter, gen, flood>>

\* the coordinates a caller may pass: the board and one step beyond each edge
Rows == -1..game.rows
Cols == -1..game.cols

Next ==
    \/ initGame
    \/ \E r \in Rows, c \in Cols : openCell(r, c)
    \/ \E r \in Rows, c \in Cols : toggleFlag(r, c)
    \/ timerTick

Spec == Init /\ [][Next]_vars

---------------------------------------------------------------------------
(* createGame, one loop iteration of createBoard at a time *)

\* script.js:149-152 and 92  the globals as declared, and a call
\* createGame(rows, cols, mines) about to run createBoard
GenInit ==
    /\ game = Null
    /\ firstClickHappened = FALSE
    /\ timerIntervalId = Null
    /\ elapsedSeconds = 0
    /\ minesCounter = Null
    /\ flood = FloodIdle
    /\ last = Ran("createGame", "call")
    /\ \E s \in Shapes : \E m \in 0..(s[1] * s[2] + MaxExtraMines) :
         gen = [pc |-> "allocate", rows |-> s[1], cols |-> s[2], minesCount |-> m,
                board |-> <<>>, placedMines |-> 0, created |-> Null]

\* script.js:49-61
allocateCells ==
    /\ gen.pc = "allocate"
    /\ gen' = [gen EXCEPT !.board = emptyBoard(gen.rows, gen.cols),
                          !.placedMines = 0,
                          !.pc = "place"]
    /\ UNCHANGED <<game, firstClickHappened, timerIntervalId, elapsedSeconds,
                 minesCounter, last, flood>>

\* script.js:62-69  one iteration of the while loop; r and c are the two
\* Math.floor(Math.random() * n) draws
placeMine ==
    /\ gen.pc = "place"
    /\ placementPending(gen.placedMines, gen.minesCount)
    /\ \E r \in 0..(gen.rows - 1), c \in 0..(gen.cols - 1) :
         gen' = IF ~gen.board[<<r, c>>].hasMine
                THEN [gen EXCEPT !.board[<<r, c>>].hasMine = TRUE,
                                 !.placedMines = @ + 1]
                ELSE gen
    /\ UNCHANGED <<game, firstClickHappened, timerIntervalId, elapsedSeconds,
                 minesCounter, last, flood>>

\* script.js:62, 71-80 and 93-99  the loop ends, the counts are filled in and
\* createGame returns the game object
returnGame ==
    /\ gen.pc = "place"
    /\ ~placementPending(gen.placedMines, gen.minesCount)
    /\ LET b == countNeighbors(gen.board, gen.rows, gen.cols)
       IN  gen' = [gen EXCEPT !.board = b,
                              !.created = createGame(gen.rows, gen.cols, gen.minesCount, b),
                              !.pc = "returned"]
    /\ UNCHANGED <<game, firstClickHappened, timerIntervalId, elapsedSeconds,
                 minesCounter, last, flood>>

GenNext == allocateCells \/ placeMine \/ returnGame

GenSpec == GenInit /\ [][GenNext]_vars

\* every game the step-by-step createGame returns is one the handlers start from
GenReturnsCreateBoard ==
    gen.pc = "returned" =>
        /\ gen.minesCount <= gen.rows * gen.cols
        /\ gen.created.board \in createBoard(gen.rows, gen.cols, gen.minesCount)

---------------------------------------------------------------------------
---------------------------------------------------------------------------
(* The handlers on the sample fixture *)

\* script.js:108-129  the 3x3 fixture with the counts it stores
createSampleBoard ==
    LET cell(hasMine, neighborMines) ==
            [hasMine |-> hasMine, neighborMines |-> neighborMines, state |-> "closed"]
    IN  ( <<0, 0>> :> cell(FALSE, 1) @@ <<0, 1>> :> cell(TRUE, 0)  @@
          <<0, 2>> :> cell(FALSE, 2) @@
          <<1, 0>> :> cell(FALSE, 1) @@ <<1, 1>> :> cell(TRUE, 0)  @@
          <<1, 2>> :> cell(TRUE, 0)  @@
          <<2, 0>> :> cell(FALSE, 0) @@ <<2, 1>> :> cell(FALSE, 2) @@
          <<2, 2>> :> cell(FALSE, 1) )

\* script.js:132-138
sampleGame ==
    [rows |-> 3, cols |-> 3, mines |-> 3, status |-> "in-progress",
     board |-> createSampleBoard]

\* script.js:132-138 and 149-152  the fixture as the game the handlers work on
SampleInit ==
    /\ game = sampleGame
    /\ firstClickHappened = FALSE
    /\ timerIntervalId = Null
    /\ elapsedSeconds = 0
    /\ minesCounter = updateMinesCounter(sampleGame)
    /\ last = Ran("createSampleBoard", "end")
    /\ gen = GenIdle
    /\ flood = FloodIdle

SampleNext ==
    \/ \E r \in Rows, c \in Cols : openCell(r, c)
    \/ \E r \in Rows, c \in Cols : toggleFlag(r, c)
    \/ timerTick

SampleSpec == SampleInit /\ [][SampleNext]_vars

---------------------------------------------------------------------------
(* The handlers, with floodOpen one loop iteration at a time *)

\* the sequence s without its i-th element
RemoveAt(s, i) == SubSeq(s, 1, i - 1) \o SubSeq(s, i + 1, Len(s))

\* script.js:326-333, 342-343 and 300  openCell(r, c) up to the first test of
\* the while loop of floodOpen(r, c)
floodBegin(r, c) ==
    /\ flood.pc = "idle"
    /\ ~openCellReturnsEarly(game)
    /\ inBounds(game, r, c)
    /\ ~openCellSkipsCell(game.board[<<r, c>>].state)
    /\ ~game.board[<<r, c>>].hasMine
    /\ game.board[<<r, c>>].neighborMines = 0
    /\ LET timer == IF startsTimer(firstClickHappened)
                    THEN startTimer(timerIntervalId)
                    ELSE [timerIntervalId |-> timerIntervalId,
                          elapsedSeconds  |-> elapsedSeconds]
       IN  /\ firstClickHappened' = TRUE
           /\ timerIntervalId' = timer.timerIntervalId
           /\ elapsedSeconds' = timer.elapsedSeconds
    /\ flood' = [pc |-> "loop", seed |-> <<r, c>>, stack |-> << <<r, c>> >>,
                 board |-> game.board, opened |-> <<>>]
    /\ last' = Ran("openCell", "floodOpen")
    /\ UNCHANGED <<game, minesCounter, gen>>

\* script.js:301-317  one iteration of the while loop that takes the i-th
\* coordinate of the work-list; stack.pop() takes the last
floodIterateAt(i) ==
    /\ flood.pc = "loop"
    /\ i \in 1..Len(flood.stack)
    /\ LET cur  == flood.stack[i]
           rest == RemoveAt(flood.stack, i)
           cell == game.board[cur]
           b2   == [game.board EXCEPT ![cur].state = "open"]
       IN  IF floodDiscards(cell)
           THEN /\ flood' = [flood EXCEPT !.stack = rest]
                /\ UNCHANGED game
           ELSE /\ game' = [game EXCEPT !.board = b2]
                /\ flood' = [flood EXCEPT
                       !.stack  = IF cell.neighborMines = 0
                                  THEN rest \o pushedNeighbors(game, b2, cur[1], cur[2])
                                  ELSE rest,
                       !.opened = Append(@, cur)]
    /\ UNCHANGED <<firstClickHappened, timerIntervalId, elapsedSeconds, minesCounter,
                   last, gen>>

\* script.js:301-317  one iteration of the while loop
floodIterate == floodIterateAt(Len(flood.stack))

\* script.js:301, 347-348  the work-list is empty: floodOpen returns and
\* openCell ends with checkWinCondition
floodReturn ==
    /\ flood.pc = "loop"
    /\ flood.stack = <<>>
    /\ LET won == checkWinCondition(game, game.board)
       IN  /\ game' = [game EXCEPT !.status = IF won THEN "win" ELSE @]
           /\ timerIntervalId' = IF won THEN stopTimer(timerIntervalId)
                                        ELSE timerIntervalId
    /\ flood' = FloodIdle
    /\ last' = Ran("openCell", "end")
    /\ UNCHANGED <<firstClickHappened, elapsedSeconds, minesCounter, gen>>

\* openCell(r, c) does not get to floodOpen
NoFloodCall(r, c) ==
    IF openCellReturnsEarly(game) \/ ~inBounds(game, r, c)
    THEN TRUE
    ELSE LET cell == game.board[<<r, c>>]
         IN  openCellSkipsCell(cell.state) \/ cell.hasMine \/ cell.neighborMines # 0

\* the handlers between two floods: a handler runs when none is running
FloodIdleNext ==
    /\ flood.pc = "idle"
    /\ \/ initGame
       \/ \E r \in Rows, c \in Cols : NoFloodCall(r, c) /\ openCell(r, c)
       \/ \E r \in Rows, c \in Cols : toggleFlag(r, c)
       \/ timerTick

FloodNext ==
    \/ FloodIdleNext
    \/ \E r \in Rows, c \in Cols : floodBegin(r, c)
    \/ floodIterate
    \/ floodReturn

FloodSpec == Init /\ [][FloodNext]_vars

\* a running handler runs on: the loop iterates while the work-list has a
\* coordinate, and returns when it has none
FloodFairSpec == FloodSpec /\ WF_vars(floodIterate) /\ WF_vars(floodReturn)

\* script.js:301-317  one iteration of the while loop, the coordinate taken
\* from any place of the work-list (the end: a stack, the front: a queue)
floodIterateAnywhere == \E i \in 1..Len(flood.stack) : floodIterateAt(i)

FloodAnyOrderNext ==
    \/ FloodIdleNext
    \/ \E r \in Rows, c \in Cols : floodBegin(r, c)
    \/ floodIterateAnywhere
    \/ floodReturn

FloodAnyOrderSpec == Init /\ [][FloodAnyOrderNext]_vars

\* the loop iterations agree with floodOpen as openCell applies it in one step
FloodStepsMatchFloodOpen ==
    (flood.pc = "loop" /\ flood.stack = <<>>) =>
        LET res == floodOpen([game EXCEPT !.board = flood.board],
                             flood.seed[1], flood.seed[2])
        IN  /\ game.board = res.board
            /\ flood.opened = res.opened

(* Vocabulary of the properties *)

\* the coordinates of the current board
Board == Cells(game.rows, game.cols)

Mine(p) == game.board[p].hasMine
StateOf(p) == game.board[p].state

\* p and q are distinct cells that touch at an edge or a corner
Adjacent(p, q) ==
    /\ p # q
    /\ p[1] - q[1] \in {-1, 0, 1}
    /\ p[2] - q[2] \in {-1, 0, 1}

\* every cell without a mine is open
AllSafeOpen == \A p \in Board : ~Mine(p) => StateOf(p) = "open"

\* the cells of the sequence s
Range(s) == {s[i] : i \in 1..Len(s)}

\* no cell occurs twice in the sequence s
NoDuplicates(s) == \A i, j \in 1..Len(s) : s[i] = s[j] => i = j

RECURSIVE Closure(_, _)
\* the least set that contains S and, with a cell of Z, each cell of Z adjacent to it
Closure(S, Z) ==
    LET more == {q \in Z \ S : \E p \in S : Adjacent(p, q)}
    IN  IF more = {} THEN S ELSE Closure(S \cup more, Z)

\* the cells without a mine and without a mine next to them
ZeroCells == {p \in Board : ~Mine(p) /\ game.board[p].neighborMines = 0}

\* the zero cells linked to p by a chain of adjacent zero cells, whatever their
\* state, and the cells without a mine that touch one of them
ZeroRegion(p) ==
    LET Z == Closure({p}, ZeroCells)
    IN  Z \cup {q \in Board : ~Mine(q) /\ \E z \in Z : Adjacent(z, q)}

\* the closed zero cells linked to p by a chain of adjacent closed zero cells,
\* and the closed cells without a mine that touch one of them
ClosedZeroRegion(p) ==
    LET Z == Closure({p}, {z \in ZeroCells : StateOf(z) = "closed"})
    IN  Z \cup {q \in Board : /\ ~Mine(q)
                              /\ StateOf(q) = "closed"
                              /\ \E z \in Z : Adjacent(z, q)}

\* the cells a step turns to open
TurnedOpen == {q \in Board : StateOf(q) # "open" /\ game'.board[q].state = "open"}

\* openCell(p) is called on a closed zero cell of a game in progress
FloodCall(p) ==
    /\ game.status = "in-progress"
    /\ StateOf(p) = "closed"
    /\ ~Mine(p)
    /\ game.board[p].neighborMines = 0
    /\ openCell(p[1], p[2])

---------------------------------------------------------------------------
(* Claims *)

\* C1: in every reachable state, a cell with a mine is open only if the
\* status is lose (no mine is open while the game is in progress or won).
C1_MineOpenOnlyWhenLost ==
    \A p \in Board : Mine(p) /\ StateOf(p) = "open" => game.status = "lose"

\* C1: a mine was opened, the game is lost and every mine lies open
C1_Witness ==
    /\ last = Ran("openCell", "end")
    /\ game.status = "lose"
    /\ game.mines >= 2
    /\ \A p \in Board : Mine(p) => StateOf(p) = "open"

\* C2: within one game the status is monotonic: a game starts in progress,
\* and once the status is win or lose no openCell or toggleFlag changes it.
C2_StatusMonotonic ==
    /\ game.status = "in-progress"
    /\ [][/\ last'.op = "initGame" => game'.status = "in-progress"
          /\ (game.status # "in-progress" /\ last'.op \in {"openCell", "toggleFlag"})
                => game'.status = game.status]_vars

\* C2: openCell was called on a won game that still has a closed mine
C2_Witness ==
    /\ last = Ran("openCell", "status")
    /\ game.status = "win"
    /\ \E p \in Board : Mine(p) /\ StateOf(p) = "closed"

\* C3: when the status is win or lose, openCell and toggleFlag leave the whole
\* game state unchanged: the cells, the status, firstClickHappened, the timer.
C3_TerminalCallsChangeNothing ==
    [][(game.status # "in-progress" /\ last'.op \in {"openCell", "toggleFlag"})
          => UNCHANGED <<game, firstClickHappened, timerIntervalId, elapsedSeconds>>]_vars

\* C3: toggleFlag was called on a lost game that still has closed and flagged cells
C3_Witness ==
    /\ last = Ran("toggleFlag", "status")
    /\ game.status = "lose"
    /\ \E p \in Board : StateOf(p) = "closed"
    /\ \E p \in Board : StateOf(p) = "flagged"

\* C4: openCell on a closed mine of a game in progress sets the status to lose,
\* leaves every mine open, closed or flagged before, and changes no other cell.
C4_OpeningMineLosesAndRevealsMines ==
    [][\A p \in Board :
          (/\ game.status = "in-progress"
           /\ StateOf(p) = "closed"
           /\ Mine(p)
           /\ openCell(p[1], p[2]))
          => /\ game'.status = "lose"
             /\ \A q \in Board :
                  IF Mine(q)
                  THEN game'.board[q].state = "open"
                  ELSE game'.board[q] = game.board[q]]_vars

\* C4: a game lost by openCell, with a cell without a mine still flagged and
\* another still closed
C4_Witness ==
    /\ last = Ran("openCell", "end")
    /\ game.status = "lose"
    /\ \E p \in Board : ~Mine(p) /\ StateOf(p) = "flagged"
    /\ \E p \in Board : ~Mine(p) /\ StateOf(p) = "closed"
    /\ \E p \in Board : ~Mine(p) /\ StateOf(p) = "open"

\* C5 as stated: on every board with 0 <= mines <= rows*cols, the status is win
\* if and only if every cell without a mine is open.
C5_WinIffAllSafeOpen_AsStated == (game.status = "win") <=> AllSafeOpen

\* C5 amended: the status is win only if every cell without a mine is open, and
\* on a board with a cell without a mine (mines < rows*cols) it is win as soon
\* as they all are; on a board of mines alone the status is never win.
C5_WinIffAllSafeOpen ==
    /\ game.status = "win" => AllSafeOpen
    /\ game.mines < game.rows * game.cols => (AllSafeOpen => game.status = "win")
    /\ game.mines = game.rows * game.cols => game.status # "win"

\* C5: a game won with a flagged and a closed mine
C5_Witness ==
    /\ last = Ran("openCell", "end")
    /\ game.status = "win"
    /\ \E p \in Board : Mine(p) /\ StateOf(p) = "flagged"
    /\ \E p \in Board : Mine(p) /\ StateOf(p) = "closed"

\* C6 as stated: openCell on a closed zero cell of a game in progress opens
\* every zero cell linked to the seed by a chain of adjacent zero cells and
\* every cell without a mine adjacent to one of them, and nothing else.
C6_FloodOpensZeroRegion_AsStated ==
    [][\A p \in Board :
          FloodCall(p) =>
             /\ \A q \in ZeroRegion(p) : game'.board[q].state = "open"
             /\ TurnedOpen \subseteq ZeroRegion(p)]_vars

\* C6 amended: openCell on a closed zero cell of a game in progress opens
\* exactly the closed zero cells linked to the seed by a chain of adjacent
\* closed zero cells and the closed cells without a mine adjacent to one of
\* them; flagged cells are neither opened nor passed through, no mine is
\* opened, each cell is set to open once and no other cell changes.
C6_FloodOpensClosedZeroRegion ==
    [][\A p \in Board :
          FloodCall(p) =>
             LET opened == floodOpen(game, p[1], p[2]).opened
             IN  /\ TurnedOpen = ClosedZeroRegion(p)
                 /\ Range(opened) = TurnedOpen
                 /\ NoDuplicates(opened)
                 /\ \A q \in TurnedOpen : ~Mine(q)
                 /\ \A q \in Board \ TurnedOpen : game'.board[q] = game.board[q]]_vars

\* C6: a flood has opened a diagonal neighbour past two flagged cells, in a
\* game that goes on
C6_Witness ==
    /\ last = Ran("openCell", "end")
    /\ game.status = "in-progress"
    /\ game.mines = 0
    /\ \E p, q \in Board :
         /\ p[1] # q[1] /\ p[2] # q[2]
         /\ StateOf(p) = "open" /\ StateOf(q) = "open"
         /\ \A x \in Board \ {p, q} : StateOf(x) = "flagged"

\* C7: openCell and toggleFlag called with coordinates outside the board are
\* silent no-ops: they raise no error and leave the game state unchanged.
C7_OutOfBoundsIsSilentNoOp ==
    [][\A r \in Rows, c \in Cols :
          (~inBounds(game, r, c) /\ (openCell(r, c) \/ toggleFlag(r, c)))
          => /\ last'.exit # "throw"
             /\ UNCHANGED <<game, firstClickHappened, timerIntervalId, elapsedSeconds>>]_vars

\* C8: createGame called with mines > rows*cols is rejected and terminates: it
\* is never inside the placement loop with every cell mined and mines to place.
C8_OverfullBoardIsRejected ==
    ~(/\ gen.pc = "place"
      /\ gen.minesCount > gen.rows * gen.cols
      /\ placementPending(gen.placedMines, gen.minesCount)
      /\ \A p \in Cells(gen.rows, gen.cols) : gen.board[p].hasMine)

\* C9 as stated: createGame with mines = rows*cols fails: it returns no game
\* whose board consists of mines alone.
C9_FullBoardIsRejected_AsStated ==
    ~(/\ gen.pc = "returned"
      /\ gen.minesCount = gen.rows * gen.cols
      /\ \A p \in Cells(gen.rows, gen.cols) : gen.created.board[p].hasMine)

\* C9 amended: createGame with mines = rows*cols raises no error: while the
\* placement loop has mines to place a cell without a mine is left for it to
\* hit, and the game it returns is in progress with every cell a closed mine.
C9_FullBoardIsAllMines ==
    gen.minesCount = gen.rows * gen.cols =>
        /\ (gen.pc = "place" /\ placementPending(gen.placedMines, gen.minesCount))
              => \E p \in Cells(gen.rows, gen.cols) : ~gen.board[p].hasMine
        /\ gen.pc = "returned" =>
              /\ gen.created.status = "in-progress"
              /\ gen.created.mines = gen.rows * gen.cols
              /\ \A p \in Cells(gen.rows, gen.cols) :
                    /\ gen.created.board[p].hasMine
                    /\ gen.created.board[p].state = "closed"

\* C9: createGame has returned a game for mines = rows*cols on a board of
\* several cells
C9_Witness ==
    /\ gen.pc = "returned"
    /\ gen.minesCount = gen.rows * gen.cols
    /\ gen.rows * gen.cols >= 2

\* C10: for rows, cols >= 1 and 0 <= mines <= rows*cols the board createBoard
\* returns has exactly `mines` mines, every cell closed, and in every cell
\* without a mine neighborMines is the number of adjacent cells with a mine.
C10_BoardHasMinesAndCounts ==
    (gen.pc = "returned" /\ gen.minesCount <= gen.rows * gen.cols) =>
        LET b == gen.created.board
            C == Cells(gen.rows, gen.cols)
        IN  /\ DOMAIN b = C
            /\ Cardinality({p \in C : b[p].hasMine}) = gen.minesCount
            /\ \A p \in C : b[p].state = "closed"
            /\ \A p \in C :
                 ~b[p].hasMine =>
                    b[p].neighborMines =
                       Cardinality({q \in C : Adjacent(p, q) /\ b[q].hasMine})

\* C10: a returned board with a cell that counts a mine at a corner and none
\* at an edge
C10_Witness ==
    /\ gen.pc = "returned"
    /\ \E p \in Cells(gen.rows, gen.cols) :
         /\ ~gen.created.board[p].hasMine
         /\ gen.created.board[p].neighborMines = 1
         /\ \E q \in Cells(gen.rows, gen.cols) :
              /\ gen.created.board[q].hasMine
              /\ p[1] # q[1] /\ p[2] # q[2]

\* C11: openCell or toggleFlag on a cell that is already open is a no-op: no
\* cell, the status, firstClickHappened and the timer all stay as they were.
C11_CallOnOpenCellChangesNothing ==
    [][\A p \in Board :
          (StateOf(p) = "open" /\ (openCell(p[1], p[2]) \/ toggleFlag(p[1], p[2])))
          => UNCHANGED <<game, firstClickHappened, timerIntervalId, elapsedSeconds,
                         minesCounter>>]_vars

\* C11: toggleFlag has returned at the open cell it was called on, in a game
\* that goes on with its timer running
C11_Witness ==
    /\ last = Ran("toggleFlag", "state")
    /\ game.status = "in-progress"
    /\ timerIntervalId # Null
    /\ \E p \in Board : StateOf(p) = "open"
    /\ \E p \in Board : StateOf(p) = "closed"

\* C12: toggleFlag on a closed or flagged cell of a game in progress flips
\* that cell (closed to flagged, flagged to closed) and leaves every other
\* cell, the status, firstClickHappened and the timer unchanged.
C12_ToggleFlagFlipsOneCell ==
    [][\A p \in Board :
          (/\ game.status = "in-progress"
           /\ StateOf(p) \in {"closed", "flagged"}
           /\ toggleFlag(p[1], p[2]))
          => /\ game'.board[p].state =
                   (IF StateOf(p) = "closed" THEN "flagged" ELSE "closed")
             /\ game'.board[p].hasMine = game.board[p].hasMine
             /\ game'.board[p].neighborMines = game.board[p].neighborMines
             /\ \A q \in Board \ {p} : game'.board[q] = game.board[q]
             /\ game'.status = "in-progress"
             /\ UNCHANGED <<firstClickHappened, timerIntervalId, elapsedSeconds>>]_vars

\* C12: toggleFlag has run through in a started game where every cell without
\* a mine but one is open and the mine counter shows fewer mines than there are
C12_Witness ==
    /\ last = Ran("toggleFlag", "end")
    /\ game.status = "in-progress"
    /\ firstClickHappened
    /\ Cardinality({p \in Board : ~Mine(p) /\ StateOf(p) # "open"}) = 1
    /\ minesCounter < game.mines

\* the cells of the current board that are open
OpenCells == {p \in Board : StateOf(p) = "open"}

\* C13 as stated: on the sample fixture, all cells closed, openCell(2,0)
\* opens exactly (2,0), (2,1), (2,2), (1,0), (0,0), no mine, and the status
\* stays in progress.
C13_SampleCascade_AsStated ==
    [][(game = sampleGame /\ openCell(2, 0))
          => /\ TurnedOpen = {<<2, 0>>, <<2, 1>>, <<2, 2>>, <<1, 0>>, <<0, 0>>}
             /\ game'.status = "in-progress"]_vars

\* C13 amended: on the sample fixture, all cells closed, openCell(2,0) opens
\* exactly (2,0), (2,1) and (1,0): the stored counts of (2,1) and (1,0) are
\* not 0, so the cascade ends there.  No mine is opened, (0,0), (0,2), (2,2)
\* and the three mines stay closed and the status stays in progress.
C13_SampleCascade ==
    [][(game = sampleGame /\ openCell(2, 0))
          => /\ TurnedOpen = {<<2, 0>>, <<2, 1>>, <<1, 0>>}
             /\ \A q \in Board \ TurnedOpen : game'.board[q] = game.board[q]
             /\ \A q \in {<<0, 0>>, <<0, 2>>, <<2, 2>>, <<0, 1>>, <<1, 1>>, <<1, 2>>} :
                   game'.board[q].state = "closed"
             /\ game'.status = "in-progress"]_vars

\* C13: the fixture right after openCell(2,0): three cells open, six closed
C13_Witness ==
    /\ last = Ran("openCell", "end")
    /\ game.rows = 3 /\ game.cols = 3
    /\ game.status = "in-progress"
    /\ OpenCells = {<<2, 0>>, <<2, 1>>, <<1, 0>>}
    /\ \A p \in Board \ OpenCells : StateOf(p) = "closed"

\* C14: in every reachable state whose status is win or lose the timer
\* interval is not active (timerIntervalId is null), so no tick can follow the
\* end of the game, also when the game ends on its very first open.
C14_NoTimerAfterGameEnd ==
    game.status \in {"win", "lose"} =>
        /\ timerIntervalId = Null
        /\ ~ENABLED timerTick

\* C14: a game lost on its first open: no cell without a mine is open, the
\* timer was started and is stopped
C14_Witness ==
    /\ last = Ran("openCell", "end")
    /\ game.status = "lose"
    /\ firstClickHappened
    /\ elapsedSeconds = 0
    /\ timerIntervalId = Null
    /\ \E p \in Board : ~Mine(p)
    /\ \A p \in Board : ~Mine(p) => StateOf(p) # "open"

\* C15: in each game the timer is started once, by the first successful open
\* (openCell on a closed cell of a game in progress); an open that returns
\* early and toggleFlag never start it, and a later successful open neither
\* restarts it nor resets elapsedSeconds.
C15_TimerStartsOnFirstOpenOnly ==
    [][/\ (last'.op = "toggleFlag" \/ (last'.op = "openCell" /\ last'.exit # "end"))
            => UNCHANGED <<firstClickHappened, timerIntervalId, elapsedSeconds>>
       /\ (last' = Ran("openCell", "end") /\ ~firstClickHappened)
            => /\ firstClickHappened'
               /\ elapsedSeconds' = 0
               /\ timerIntervalId' =
                     (IF game'.status = "in-progress" THEN IntervalHandle ELSE Null)
       /\ (last' = Ran("openCell", "end") /\ firstClickHappened)
            => /\ firstClickHappened'
               /\ elapsedSeconds' = elapsedSeconds
               /\ timerIntervalId' =
                     (IF game'.status = "in-progress" THEN timerIntervalId ELSE Null)
       /\ (firstClickHappened /\ last'.op # "initGame") => firstClickHappened']_vars

\* C15: a successful open in a game whose timer has ticked: the seconds are
\* kept and the timer runs on
C15_Witness ==
    /\ last = Ran("openCell", "end")
    /\ game.status = "in-progress"
    /\ firstClickHappened
    /\ elapsedSeconds > 0
    /\ timerIntervalId = IntervalHandle
    /\ Cardinality({p \in Board : StateOf(p) = "open"}) >= 2

\* C16: initGame, called in any reachable state, yields a fresh game: the
\* status is in progress, every cell is closed, the board has exactly `mines`
\* mines, firstClickHappened is false and the timer is not running.
C16_InitGameYieldsFreshGame ==
    last.op = "initGame" =>
        /\ game.status = "in-progress"
        /\ \A p \in Board : StateOf(p) = "closed"
        /\ Cardinality({p \in Board : Mine(p)}) = game.mines
        /\ DOMAIN game.board = Board
        /\ firstClickHappened = FALSE
        /\ timerIntervalId = Null
        /\ ~ENABLED timerTick

\* C16: initGame has replaced a game whose timer had ticked
C16_Witness ==
    /\ last = Ran("initGame", "end")
    /\ elapsedSeconds > 0
    /\ game.mines >= 1
    /\ game.mines < game.rows * game.cols

\* C17: in every reachable state the number of flagged cells is between 0 and
\* rows*cols, and the remaining-mines value shown, max(0, mines - flags), is
\* never negative, also when more cells are flagged than there are mines.
C17_FlagCountAndCounterInRange ==
    /\ getFlagCount(game) >= 0
    /\ getFlagCount(game) <= game.rows * game.cols
    /\ minesCounter >= 0
    /\ game.status = "in-progress" =>
          minesCounter = (IF getFlagCount(game) > game.mines
                          THEN 0
                          ELSE game.mines - getFlagCount(game))

\* C17: more cells are flagged than there are mines, every cell of the board
\* among them, and the counter shows 0
C17_Witness ==
    /\ last = Ran("toggleFlag", "end")
    /\ game.mines >= 1
    /\ getFlagCount(game) > game.mines
    /\ getFlagCount(game) = game.rows * game.cols
    /\ minesCounter = 0

\* the number of closed cells of the board b
ClosedCount(b) == Cardinality({p \in DOMAIN b : b[p].state = "closed"})

\* C18: floodOpen terminates on every configuration a game reaches: each
\* iteration either opens one closed cell or discards the coordinate it took
\* without pushing anything (the cell is not closed, or is a mine), no cell is
\* opened twice, and the work-list becomes empty so that the call returns;
\* from a seed that is not closed or is a mine it returns with no cell changed.
C18_FloodOpenTerminates ==
    /\ [][(flood.pc = "loop" /\ flood.stack # <<>>) =>
            LET cur  == flood.stack[Len(flood.stack)]
                rest == SubSeq(flood.stack, 1, Len(flood.stack) - 1)
                cell == game.board[cur]
            IN  /\ flood'.pc = "loop"
                /\ IF cell.state # "closed" \/ cell.hasMine
                   THEN /\ game' = game
                        /\ flood'.stack = rest
                        /\ flood'.opened = flood.opened
                   ELSE /\ game'.board[cur].state = "open"
                        /\ ClosedCount(game'.board) = ClosedCount(game.board) - 1
                        /\ flood'.opened = Append(flood.opened, cur)
                /\ NoDuplicates(flood'.opened)
                /\ \A p \in Range(flood'.opened) :
                      /\ flood.board[p].state = "closed"
                      /\ ~flood.board[p].hasMine]_vars
    /\ (flood.pc = "loop") ~> (flood.pc = "idle")
    /\ [](flood.pc = "idle" =>
            \A p \in Board :
               LET res == floodOpen(game, p[1], p[2])
               IN  /\ NoDuplicates(res.opened)
                   /\ \A q \in Range(res.opened) :
                         StateOf(q) = "closed" /\ ~Mine(q)
                   /\ floodDiscards(game.board[p]) => res.board = game.board)

\* C18: a running floodOpen whose work-list holds a coordinate twice, one of
\* them of a cell that is open by now
C18_Witness ==
    /\ flood.pc = "loop"
    /\ ~NoDuplicates(flood.stack)
    /\ \E i \in 1..Len(flood.stack) : game.board[flood.stack[i]].state = "open"
    /\ Len(flood.opened) >= 2

\* C19: the cells flood-reveal opens do not depend on the order in which the
\* coordinates are taken from the work-list: taken in any order (a stack as
\* floodOpen does, a queue, or any other), the loop ends with the cell states
\* floodOpen ends with.
C19_FloodOrderIndependent ==
    (flood.pc = "loop" /\ flood.stack = <<>>) =>
        LET res == floodOpen([game EXCEPT !.board = flood.board],
                             flood.seed[1], flood.seed[2])
        IN  /\ game.board = res.board
            /\ Range(flood.opened) = Range(res.opened)
            /\ Len(flood.opened) = Len(res.opened)

\* C19: a loop that ended after opening three cells or more in another order
\* than floodOpen's
C19_Witness ==
    /\ flood.pc = "loop"
    /\ flood.stack = <<>>
    /\ Len(flood.opened) >= 3
    /\ flood.opened # floodOpen([game EXCEPT !.board = flood.board],
                                flood.seed[1], flood.seed[2]).opened
    /\ \E p \in Board : StateOf(p) = "flagged"

\* C20: a flagged cell is protected from opening: openCell on a flagged cell
\* is a no-op, floodOpen neither opens a flagged cell nor cascades through
\* one, and in any step a cell goes from flagged to open only if it is a mine
\* and that step sets the status to lose.
C20_FlaggedCellIsProtected ==
    [][\A p \in Board :
          /\ (StateOf(p) = "flagged" /\ openCell(p[1], p[2]))
                => UNCHANGED <<game, firstClickHappened, timerIntervalId,
                               elapsedSeconds, minesCounter>>
          /\ FloodCall(p)
                => /\ \A q \in Board :
                        StateOf(q) = "flagged" => game'.board[q] = game.board[q]
                   /\ TurnedOpen \subseteq ClosedZeroRegion(p)
          /\ (StateOf(p) = "flagged" /\ game'.board[p].state = "open")
                => /\ Mine(p)
                   /\ game.status = "in-progress"
                   /\ game'.status = "lose"]_vars

\* C20: a lost game in which a flagged mine was opened (the counter still
\* counts its flag) while a flagged cell without a mine kept its flag
C20_Witness ==
    /\ last = Ran("openCell", "end")
    /\ game.status = "lose"
    /\ minesCounter < game.mines - getFlagCount(game)
    /\ \E p \in Board : ~Mine(p) /\ StateOf(p) = "flagged"

=============================================================================
